---- MODULE Spec2Model ----
(***************************************************************************)
(* Product-price CSV converters of product-price-php-exporter/Version1.     *)
(*                                                                         *)
(* Text is a sequence of one-character strings.  A parsed CSV row is a      *)
(* sequence of fields.  The file is its first row (header) followed by the  *)
(* data rows, which the single forward pass of csv.reader reveals one at a  *)
(* time.  A worksheet is a function from <<row, column>> to cell text, as   *)
(* openpyxl's Worksheet.cell(row, column, value) fills it.                  *)
(***************************************************************************)
EXTENDS Integers, Sequences, FiniteSets, TLC

VARIABLES
    path,               \* the path the user typed, as pathlib answers for it
    log_file,           \* whether main() has created the conversion log file
    variant,            \* which script runs: "main", "backup", "word" or "ti"
    pc,                 \* position of the run
    header,             \* first row of the input file
    input,              \* data rows the reader has produced in this run
    verdicts,           \* per data row, the branch of the loop body it took
    statistics,         \* CSVToExcelConverter.statistics
    duplicate_detector, \* CSVToExcelConverter.duplicate_detector
    excel_writer,       \* the ExcelWriter of the current convert() call
    locals,             \* local variables of convert_csv_to_excel / _word
    disk,               \* the output document on disk
    runs,               \* convert() calls started on the converter object
    consumed            \* data rows read over all runs

vars == <<path, log_file, variant, pc, header, input, verdicts, statistics, duplicate_detector,
          excel_writer, locals, disk, runs, consumed>>

----------------------------------------------------------------------------
\* Bounds of the model.

MaxRows == 3

MaxRuns == 2

----------------------------------------------------------------------------
\* Text: str.isspace, str.strip, str.lower, str.split, ' '.join and
\* unicodedata.normalize('NFKC', .) on the characters the inputs use.
\* "FWA" stands for U+FF21 FULLWIDTH LATIN CAPITAL LETTER A and "FWa" for
\* U+FF41 FULLWIDTH LATIN SMALL LETTER A.

E == <<>>

IsSpace(c) == c = " "

RECURSIVE LStrip(_)
LStrip(s) ==
    IF s = <<>> THEN s
    ELSE IF IsSpace(Head(s)) THEN LStrip(Tail(s)) ELSE s

RECURSIVE RStrip(_)
RStrip(s) ==
    IF s = <<>> THEN s
    ELSE IF IsSpace(s[Len(s)]) THEN RStrip(SubSeq(s, 1, Len(s) - 1)) ELSE s

Strip(s) == RStrip(LStrip(s))

UpperAscii == <<"A", "B", "C", "D", "E", "F", "G", "H", "I", "J", "K", "L", "M",
                "N", "O", "P", "Q", "R", "S", "T", "U", "V", "W", "X", "Y", "Z">>

LowerAscii == <<"a", "b", "c", "d", "e", "f", "g", "h", "i", "j", "k", "l", "m",
                "n", "o", "p", "q", "r", "s", "t", "u", "v", "w", "x", "y", "z">>

LowerChar(c) ==
    IF \E i \in 1..Len(UpperAscii) : UpperAscii[i] = c
    THEN LowerAscii[CHOOSE i \in 1..Len(UpperAscii) : UpperAscii[i] = c]
    ELSE IF c = "FWA" THEN "FWa" ELSE c

Lower(s) == [i \in 1..Len(s) |-> LowerChar(s[i])]

NFKCChar(c) ==
    IF c = "FWA" THEN "A" ELSE IF c = "FWa" THEN "a" ELSE c

NFKC(s) == [i \in 1..Len(s) |-> NFKCChar(s[i])]

\* str.split() with no argument: the maximal runs of non-whitespace.
RECURSIVE SplitFrom(_, _, _)
SplitFrom(s, word, words) ==
    IF s = <<>>
    THEN IF word = <<>> THEN words ELSE Append(words, word)
    ELSE IF IsSpace(Head(s))
         THEN SplitFrom(Tail(s), <<>>,
                        IF word = <<>> THEN words ELSE Append(words, word))
         ELSE SplitFrom(Tail(s), Append(word, Head(s)), words)

Split(s) == SplitFrom(s, <<>>, <<>>)

RECURSIVE JoinSpace(_)
JoinSpace(words) ==
    IF words = <<>> THEN <<>>
    ELSE IF Len(words) = 1 THEN words[1]
    ELSE words[1] \o <<" ">> \o JoinSpace(Tail(words))

----------------------------------------------------------------------------
\* The input file.

NoRow == << <<"<end of file>">> >>

DecodeError == << <<"<undecodable bytes>">> >>

Apple == <<"A", "p", "p", "l", "e">>

AppleLowerSp == <<"a", "p", "p", "l", "e", " ">>

AppleFullwidth == <<"FWA", "P", "P", "L", "E">>

Banana == <<"B", "a", "n", "a", "n", "a">>

HpLaptop == <<"H", "P", " ", "L", "a", "p">>

HpLaptopWide == <<" ", "h", "p", " ", " ", "l", "a", "p">>

DataRows ==
    { <<>>,
      <<E, E>>,
      <<E, <<"5">>>>,
      <<E, E, <<"x">>>>,
      <<<<" ">>, <<" ">>>>,
      <<Apple, <<"1", "0">>>>,
      <<AppleLowerSp, <<" ", "1", "0">>>>,
      <<AppleFullwidth, <<"3">>>>,
      <<Banana, E>>,
      <<Banana>>,
      <<HpLaptop, <<"1">>, <<"x">>>>,
      <<HpLaptopWide, <<"2">>, <<"y">>, <<"z">>>> }

HeaderRows ==
    { <<>>,
      <<<<"n">>, <<"p">>>>,
      <<<<"n">>, <<"p">>, <<"c">>>>,
      <<<<"n">>, <<" ">>, <<"c">>>>,
      <<<<"n">>, <<"p">>, <<"c">>, <<"d">>>>,
      <<Apple, <<"1", "0">>>> }

----------------------------------------------------------------------------
\* The file create_test_csv of test_converter.py writes.  A string that
\* starts with "FA:" stands for one Persian word, a run of letters that have
\* no case and that NFKC leaves as they are.

SampleHeader == <<<<"FA:nam", " ", "FA:mahsul">>, <<"FA:gheymat">>,
                  <<"FA:dastebandi">>>>

SampleRows ==
    <<
       <<<<"FA:ayfon", " ", "1", "4">>,
         <<"5", "0", "0", "0", "0", "0", "0", "0">>, <<"FA:mobayl">>>>,
       <<<<"FA:samsung", " ", "FA:galaksi">>,
         <<"3", "0", "0", "0", "0", "0", "0", "0">>, <<"FA:mobayl">>>>,
       <<<<" ", " ", "FA:ayfon", " ", "1", "4", " ", " ">>,
         <<"5", "1", "0", "0", "0", "0", "0", "0">>, <<"FA:mobayl">>>>,
       <<<<"FA:aypad", " ", "FA:pro">>,
         <<"4", "0", "0", "0", "0", "0", "0", "0">>, <<"FA:tablet">>>>,
       <<<<"I", "P", "H", "O", "N", "E", " ", "1", "4">>,
         <<"5", "2", "0", "0", "0", "0", "0", "0">>, <<"FA:mobayl">>>>,
       <<<<"FA:laptap", " ", "H", "P", " ", "L", "a", "p", "t", "o", "p">>,
         <<"2", "5", "0", "0", "0", "0", "0", "0">>, <<"FA:kampyuter">>>>,
       <<E, E, E>>,
       <<<<"FA:maus", " ", "G", "a", "m", "i", "n", "g", " ", "M", "o", "u", "s", "e">>,
         <<"5", "0", "0", "0", "0", "0">>, <<"FA:lavazem">>>>,
       <<<<"FA:laptap", " ", "h", "p", " ", "l", "a", "p", "t", "o", "p">>,
         <<"2", "6", "0", "0", "0", "0", "0", "0">>, <<"FA:kampyuter">>>>
    >>

----------------------------------------------------------------------------
\* ProductRecord.

\* is_valid that accepts every record.
is_valid_any(record) == TRUE

is_valid(record) == Strip(record.product_name) # <<>>

normalize_name(record) ==
    IF record.product_name = <<>> THEN <<>>
    ELSE JoinSpace(Split(Lower(NFKC(Strip(record.product_name)))))

----------------------------------------------------------------------------
\* DuplicateDetector.

DuplicateDetector == [_seen_products |-> {}, _duplicate_count |-> 0]

\* is_duplicate without the count of line 165.
is_duplicate_uncounted(detector, product) ==
    LET normalized_name == normalize_name(product) IN
    IF normalized_name = <<>>
    THEN [result |-> FALSE, detector |-> detector]
    ELSE IF normalized_name \in detector._seen_products
    THEN [result |-> TRUE, detector |-> detector]
    ELSE [result |-> FALSE,
          detector |-> [detector EXCEPT
                           !._seen_products = @ \cup {normalized_name}]]

\* is_duplicate without the add of line 168.
is_duplicate_forgetful(detector, product) ==
    LET normalized_name == normalize_name(product) IN
    IF normalized_name = <<>>
    THEN [result |-> FALSE, detector |-> detector]
    ELSE IF normalized_name \in detector._seen_products
    THEN [result |-> TRUE,
          detector |-> [detector EXCEPT !._duplicate_count = @ + 1]]
    ELSE [result |-> FALSE, detector |-> detector]

\* is_duplicate that adds the name as read in place of its canonical key.
is_duplicate_raw_key(detector, product) ==
    LET normalized_name == normalize_name(product) IN
    IF normalized_name = <<>>
    THEN [result |-> FALSE, detector |-> detector]
    ELSE IF normalized_name \in detector._seen_products
    THEN [result |-> TRUE,
          detector |-> [detector EXCEPT !._duplicate_count = @ + 1]]
    ELSE [result |-> FALSE,
          detector |-> [detector EXCEPT
                           !._seen_products = @ \cup {product.product_name}]]

\* Returns the answer with the detector as the call leaves it.
is_duplicate(detector, product) ==
    LET normalized_name == normalize_name(product) IN
    IF normalized_name = <<>>
    THEN [result |-> FALSE, detector |-> detector]
    ELSE IF normalized_name \in detector._seen_products
    THEN [result |-> TRUE,
          detector |-> [detector EXCEPT !._duplicate_count = @ + 1]]
    ELSE [result |-> FALSE,
          detector |-> [detector EXCEPT
                           !._seen_products = @ \cup {normalized_name}]]

get_duplicate_count(detector) == detector._duplicate_count

get_unique_count(detector) == Cardinality(detector._seen_products)

----------------------------------------------------------------------------
\* CSVReader.

\* read_records with the category taken from the last field of the row.
read_record_last_field(row, row_number) ==
    IF row = <<>>
    THEN [product_name |-> <<>>, price |-> <<>>, category |-> <<>>,
          row_number |-> row_number]
    ELSE [product_name |-> IF Len(row) >= 1 THEN Strip(row[1]) ELSE <<>>,
          price        |-> IF Len(row) >= 2 THEN Strip(row[2]) ELSE <<>>,
          category     |-> IF Len(row) >= 3 THEN Strip(row[Len(row)]) ELSE <<>>,
          row_number   |-> row_number]

\* read_records with the price taken as it stands in the row.
read_record_untrimmed(row, row_number) ==
    IF row = <<>>
    THEN [product_name |-> <<>>, price |-> <<>>, category |-> <<>>,
          row_number |-> row_number]
    ELSE [product_name |-> IF Len(row) >= 1 THEN Strip(row[1]) ELSE <<>>,
          price        |-> IF Len(row) >= 2 THEN row[2] ELSE <<>>,
          category     |-> IF Len(row) >= 3 THEN Strip(row[3]) ELSE <<>>,
          row_number   |-> row_number]

\* One iteration of the loop of read_records: the record yielded for `row`.
read_record(row, row_number) ==
    IF row = <<>>
    THEN [product_name |-> <<>>, price |-> <<>>, category |-> <<>>,
          row_number |-> row_number]
    ELSE [product_name |-> IF Len(row) >= 1 THEN Strip(row[1]) ELSE <<>>,
          price        |-> IF Len(row) >= 2 THEN Strip(row[2]) ELSE <<>>,
          category     |-> IF Len(row) >= 3 THEN Strip(row[3]) ELSE <<>>,
          row_number   |-> row_number]

\* detect_column_count that counts every cell of the first row.
\* The loop of read_records over the rows that are left, the first of them
\* numbered row_number.
RECURSIVE read_rows(_, _)
read_rows(rows, row_number) ==
    IF rows = <<>> THEN <<>>
    ELSE <<read_record(Head(rows), row_number)>>
         \o read_rows(Tail(rows), row_number + 1)

\* read_records that yields the first row as well.
read_records_keep_header(file, skip_header) == read_rows(file, 2)

\* The records read_records yields for a file that decodes, in order.
read_records(file, skip_header) ==
    LET rows == IF skip_header /\ file # <<>> THEN Tail(file) ELSE file
        row_number == IF skip_header THEN 2 ELSE 1
    IN read_rows(rows, row_number)

detect_column_count_all_cells(first_row) ==
    IF first_row = DecodeError THEN 2
    ELSE IF first_row = NoRow \/ first_row = <<>> THEN 2
    ELSE IF Len(first_row) > 2 THEN Len(first_row) ELSE 2

detect_column_count(first_row) ==
    IF first_row = DecodeError THEN 2
    ELSE IF first_row = NoRow \/ first_row = <<>> THEN 2
    ELSE LET col_count ==
                 Cardinality({i \in 1..Len(first_row) : Strip(first_row[i]) # <<>>})
         IN IF col_count > 2 THEN col_count ELSE 2

----------------------------------------------------------------------------
\* ExcelWriter.

MAX_EXCEL_ROWS == 1048576

\* Config.DEFAULT_HEADERS: the Persian labels for product name, price and
\* category, and "column <n>" for any further column; each label is one
\* opaque piece of non-blank text.
Digits == <<"1", "2", "3", "4", "5", "6", "7", "8", "9">>

HeaderText(col_idx) ==
    IF col_idx = 0 THEN <<"nam-e mahsul">>
    ELSE IF col_idx = 1 THEN <<"gheymat">>
    ELSE IF col_idx = 2 THEN <<"dastebandi">>
    ELSE <<"sotun", " ", Digits[col_idx + 1]>>

_setup_headers(column_count) ==
    [cell \in {<<1, col_idx + 1>> : col_idx \in 0..(column_count - 1)}
        |-> HeaderText(cell[2] - 1)]

\* ExcelWriter whose first data row is row 1.
ExcelWriter_from_row_1(column_count) ==
    [column_count |-> column_count,
     worksheet    |-> _setup_headers(column_count),
     _current_row |-> 1]

ExcelWriter(column_count) ==
    [column_count |-> column_count,
     worksheet    |-> _setup_headers(column_count),
     _current_row |-> 2]

SetCell(worksheet, row, column, value) == (<<row, column>> :> value) @@ worksheet

\* write_record without the advance of line 359.
write_record_no_advance(writer, record) ==
    IF writer._current_row > MAX_EXCEL_ROWS
    THEN [raised |-> TRUE, writer |-> writer]
    ELSE LET ws1 == SetCell(writer.worksheet, writer._current_row, 1,
                            record.product_name)
             ws2 == SetCell(ws1, writer._current_row, 2, record.price)
             ws3 == IF writer.column_count >= 3 /\ record.category # <<>>
                    THEN SetCell(ws2, writer._current_row, 3, record.category)
                    ELSE ws2
         IN [raised |-> FALSE, writer |-> [writer EXCEPT !.worksheet = ws3]]

\* write_record with the name and the price in each other's column.
write_record_swapped(writer, record) ==
    IF writer._current_row > MAX_EXCEL_ROWS
    THEN [raised |-> TRUE, writer |-> writer]
    ELSE LET ws1 == SetCell(writer.worksheet, writer._current_row, 1,
                            record.price)
             ws2 == SetCell(ws1, writer._current_row, 2, record.product_name)
             ws3 == IF writer.column_count >= 3 /\ record.category # <<>>
                    THEN SetCell(ws2, writer._current_row, 3, record.category)
                    ELSE ws2
         IN [raised |-> FALSE,
             writer |-> [writer EXCEPT !.worksheet = ws3,
                                       !._current_row = @ + 1]]

\* write_record without the row-limit test of lines 333-335.
write_record_unlimited(writer, record) ==
    LET ws1 == SetCell(writer.worksheet, writer._current_row, 1,
                       record.product_name)
        ws2 == SetCell(ws1, writer._current_row, 2, record.price)
        ws3 == IF writer.column_count >= 3 /\ record.category # <<>>
               THEN SetCell(ws2, writer._current_row, 3, record.category)
               ELSE ws2
    IN [raised |-> FALSE,
        writer |-> [writer EXCEPT !.worksheet = ws3, !._current_row = @ + 1]]

\* Returns the writer as the call leaves it, and whether it raised.
write_record(writer, record) ==
    IF writer._current_row > MAX_EXCEL_ROWS
    THEN [raised |-> TRUE, writer |-> writer]
    ELSE LET ws1 == SetCell(writer.worksheet, writer._current_row, 1,
                            record.product_name)
             ws2 == SetCell(ws1, writer._current_row, 2, record.price)
             ws3 == IF writer.column_count >= 3 /\ record.category # <<>>
                    THEN SetCell(ws2, writer._current_row, 3, record.category)
                    ELSE ws2
         IN [raised |-> FALSE,
             writer |-> [writer EXCEPT !.worksheet = ws3,
                                       !._current_row = @ + 1]]

\* get_rows_written that counts from the header row.
get_rows_written_from_header(writer) == writer._current_row - 1

get_rows_written(writer) == writer._current_row - 2

----------------------------------------------------------------------------
\* CSVToExcelConverter.

ConversionStatistics ==
    [total_rows_read         |-> 0,
     empty_rows_skipped      |-> 0,
     invalid_rows_skipped    |-> 0,
     duplicate_rows_skipped  |-> 0,
     unique_products_written |-> 0,
     columns_detected        |-> 0]

NoWriter == [column_count |-> 0, worksheet |-> <<>>, _current_row |-> 0]

NoLocals ==
    [seen_products |-> {}, total_rows |-> 0, duplicates_found |-> 0,
     unique_products |-> 0, out_row |-> 0, ws |-> <<>>, rows_data |-> <<>>,
     headers |-> <<>>, rows_written |-> 0, skipped_empty_rows |-> 0]

NoDocument == << <<"<no file>">> >>

\* The test of line 507 with "or" for "and".
is_empty_row_either(record) == record.product_name = <<>> \/ record.price = <<>>

\* "Skip empty rows": the test of _process_records on the record's fields.
is_empty_row(record) == record.product_name = <<>> /\ record.price = <<>>

\* The body of the loop of _process_records for one record: the converter's
\* parts as the iteration leaves them, the branch it took, and whether
\* write_record raised.
_process_record(stats, detector, writer, record) ==
    LET counted == [stats EXCEPT !.total_rows_read = @ + 1] IN
    IF is_empty_row(record)
    THEN [statistics |-> [counted EXCEPT !.empty_rows_skipped = @ + 1],
          detector |-> detector, writer |-> writer,
          verdict |-> "blank", raised |-> FALSE]
    ELSE IF ~is_valid(record)
    THEN [statistics |-> [counted EXCEPT !.invalid_rows_skipped = @ + 1],
          detector |-> detector, writer |-> writer,
          verdict |-> "invalid", raised |-> FALSE]
    ELSE LET d == is_duplicate(detector, record) IN
         IF d.result
         THEN [statistics |-> counted, detector |-> d.detector,
               writer |-> writer, verdict |-> "duplicate", raised |-> FALSE]
         ELSE LET w == write_record(writer, record) IN
              [statistics |-> counted, detector |-> d.detector,
               writer |-> w.writer, verdict |-> "admitted",
               raised |-> w.raised]

\* After the loop: ExcelWriter.save, then the statistics read off the writer
\* and the detector.
finalize(stats, detector, writer) ==
    [stats EXCEPT !.unique_products_written = get_rows_written(writer),
                  !.duplicate_rows_skipped = get_duplicate_count(detector)]

\* The loop of _process_records over the rows the reader yields, from
\* row_number on; it ends early when write_record raises.
RECURSIVE _process_records(_, _, _, _, _)
_process_records(stats, detector, writer, rows, row_number) ==
    IF rows = <<>>
    THEN [statistics |-> stats, detector |-> detector, writer |-> writer,
          raised |-> FALSE]
    ELSE LET r == _process_record(stats, detector, writer,
                                  read_record(Head(rows), row_number))
         IN IF r.raised
            THEN [statistics |-> r.statistics, detector |-> r.detector,
                  writer |-> r.writer, raised |-> TRUE]
            ELSE _process_records(r.statistics, r.detector, r.writer,
                                  Tail(rows), row_number + 1)

\* convert() of a newly constructed converter on a file that decodes: the
\* statistics it returns and the sheet it saves.
convert(first_row, rows) ==
    LET columns == detect_column_count(first_row)
        r == _process_records(
                 [ConversionStatistics EXCEPT !.columns_detected = columns],
                 DuplicateDetector, ExcelWriter(columns), rows, 2)
    IN [statistics |-> finalize(r.statistics, r.detector, r.writer),
        worksheet |-> r.writer.worksheet,
        raised |-> r.raised]

----------------------------------------------------------------------------
\* convert_csv_to_excel of csv-to-excel-input-backup.py.

\* The function up to its loop: the workbook with the two fixed headers.
backup_begin ==
    [NoLocals EXCEPT
        !.ws = SetCell(SetCell(<<>>, 1, 1, HeaderText(0)), 1, 2, HeaderText(1)),
        !.out_row = 2]

\* The body of the loop for one row: the locals as the iteration leaves them
\* and the branch it took.
backup_row(l, row) ==
    IF row = <<>> THEN [locals |-> l, verdict |-> "zero"]
    ELSE
    LET counted == [l EXCEPT !.total_rows = @ + 1]
        product_name == IF Len(row) >= 1 THEN row[1] ELSE <<>>
        price == IF Len(row) >= 2 THEN row[2] ELSE <<>>
        normalized_name == Lower(Strip(product_name))
    IN
    IF product_name = <<>> /\ price = <<>>
    THEN [locals |-> counted, verdict |-> "blank"]
    ELSE IF normalized_name = <<>>
    THEN [locals |-> counted, verdict |-> "invalid"]
    ELSE IF normalized_name \in l.seen_products
    THEN [locals |-> [counted EXCEPT !.duplicates_found = @ + 1],
          verdict |-> "duplicate"]
    ELSE [locals |->
            [counted EXCEPT
                !.seen_products = @ \cup {normalized_name},
                !.ws = SetCell(SetCell(@, l.out_row, 1, product_name),
                               l.out_row, 2, price),
                !.out_row = @ + 1,
                !.unique_products = @ + 1],
          verdict |-> "admitted"]

----------------------------------------------------------------------------
\* convert_csv_to_word of csv-to-word.py.

word_begin(first_row) ==
    [NoLocals EXCEPT
        !.headers = IF first_row \in {NoRow, DecodeError, <<>>}
                    THEN <<HeaderText(0), HeaderText(1)>>
                    ELSE first_row]

word_row(l, row) ==
    IF row = <<>> THEN [locals |-> l, verdict |-> "zero"]
    ELSE
    LET counted == [l EXCEPT !.total_rows = @ + 1]
        product_name == IF Len(row) >= 1 THEN row[1] ELSE <<>>
        normalized_name == Lower(Strip(product_name))
    IN
    IF \A i \in 1..Len(row) : Strip(row[i]) = <<>>
    THEN [locals |-> counted, verdict |-> "blank"]
    ELSE IF normalized_name = <<>>
    THEN [locals |-> counted, verdict |-> "invalid"]
    ELSE IF normalized_name \in l.seen_products
    THEN [locals |-> [counted EXCEPT !.duplicates_found = @ + 1],
          verdict |-> "duplicate"]
    ELSE [locals |->
            [counted EXCEPT
                !.seen_products = @ \cup {normalized_name},
                !.rows_data = Append(@, row),
                !.unique_products = @ + 1],
          verdict |-> "admitted"]

\* The table of the document: the header cells, then the cells of each kept
\* row up to the number of header columns; a cell never set holds "".
word_table(l) ==
    LET num_cols == Len(l.headers) IN
    [cell \in (1..(Len(l.rows_data) + 1)) \X (1..num_cols) |->
        IF cell[1] = 1 THEN l.headers[cell[2]]
        ELSE IF cell[2] <= Len(l.rows_data[cell[1] - 1])
             THEN l.rows_data[cell[1] - 1][cell[2]]
             ELSE <<>>]

----------------------------------------------------------------------------
\* convert_csv_to_excel of csv-ti-excel.py.

\* The function up to its loop: the workbook with the two fixed headers.
ti_begin ==
    [NoLocals EXCEPT
        !.ws = SetCell(SetCell(<<>>, 1, 1, HeaderText(0)), 1, 2, HeaderText(1)),
        !.out_row = 2]

\* The body of the loop for one row: the locals as the iteration leaves them
\* and the branch it took.
ti_row(l, row) ==
    IF Len(row) = 0
    THEN [locals |-> [l EXCEPT !.skipped_empty_rows = @ + 1], verdict |-> "zero"]
    ELSE
    LET product_name == IF Len(row) >= 1 THEN row[1] ELSE <<>>
        price == IF Len(row) >= 2 THEN row[2] ELSE <<>>
    IN
    IF product_name = <<>> /\ price = <<>>
    THEN [locals |-> [l EXCEPT !.skipped_empty_rows = @ + 1],
          verdict |-> "blank"]
    ELSE [locals |->
            [l EXCEPT
                !.ws = SetCell(SetCell(@, l.out_row, 1, product_name),
                               l.out_row, 2, price),
                !.out_row = @ + 1,
                !.rows_written = @ + 1],
          verdict |-> "admitted"]

----------------------------------------------------------------------------
\* PathValidator and the paths a user can type.

CsvUpperSuffix == <<".", "C", "S", "V">>

TxtSuffix == <<".", "t", "x", "t">>

\* What pathlib answers for a path: is_absolute(), suffix, and whether the
\* path names nothing, a regular file or a directory.
Paths ==
    [is_absolute : BOOLEAN, suffix : {CsvUpperSuffix, TxtSuffix},
     kind : {"missing", "file", "directory"}]

exists(p) == p.kind # "missing"

is_file(p) == p.kind = "file"

\* validate_csv_path without the exists() and is_file() tests.
validate_csv_path_unchecked(p) ==
    IF ~p.is_absolute THEN FALSE
    ELSE IF Lower(p.suffix) # <<".", "c", "s", "v">> THEN FALSE
    ELSE TRUE

\* The is_valid part of the pair validate_csv_path returns.
validate_csv_path(p) ==
    IF ~p.is_absolute THEN FALSE
    ELSE IF Lower(p.suffix) # <<".", "c", "s", "v">> THEN FALSE
    ELSE IF ~exists(p) THEN FALSE
    ELSE IF ~is_file(p) THEN FALSE
    ELSE TRUE

----------------------------------------------------------------------------
\* The runs.

TwoColumnHeader == <<<<"n">>, <<"p">>>>

Init ==
    /\ variant \in {"main", "backup", "word", "ti"}
    /\ path \in Paths
    /\ log_file = FALSE
    /\ pc = "main"
    /\ header \in IF ~is_file(path) THEN {NoRow}
                  ELSE IF variant \in {"backup", "ti"}
                  THEN {TwoColumnHeader, NoRow, DecodeError}
                  ELSE HeaderRows \cup {NoRow, DecodeError}
    /\ input = <<>>
    /\ verdicts = <<>>
    /\ statistics = ConversionStatistics
    /\ duplicate_detector = DuplicateDetector
    /\ excel_writer = NoWriter
    /\ locals = NoLocals
    /\ disk = NoDocument
    /\ runs = 0
    /\ consumed = 0

\* main() of each script, from the prompt to the call of the conversion: an
\* invalid path is reported and main returns 1; csv-to-excel-inpu.py then
\* creates its log file and constructs the converter.
MainValidate ==
    /\ pc = "main"
    /\ pc' = IF validate_csv_path(path) THEN "ready" ELSE "rejected"
    /\ log_file' = (variant = "main" /\ validate_csv_path(path))
    /\ UNCHANGED <<path, variant, header, input, verdicts, statistics,
                   duplicate_detector, excel_writer, locals, disk, runs,
                   consumed>>

\* convert(), up to the call of _process_records.
ConvertStart ==
    /\ variant = "main"
    /\ pc = "ready"
    /\ pc' = "processing"
    /\ runs' = runs + 1
    /\ statistics' = [statistics EXCEPT
                         !.columns_detected = detect_column_count(header)]
    /\ excel_writer' = ExcelWriter(detect_column_count(header))
    /\ UNCHANGED <<path, log_file, variant, header, input, verdicts, duplicate_detector,
                   locals, disk, consumed>>

\* One iteration of the loop of _process_records.
ProcessRecord ==
    /\ variant = "main"
    /\ pc = "processing"
    /\ header \notin {NoRow, DecodeError}
    /\ consumed < MaxRows
    /\ \E row \in DataRows :
         LET r == _process_record(statistics, duplicate_detector, excel_writer,
                                  read_record(row, Len(input) + 2))
         IN /\ input' = Append(input, row)
            /\ verdicts' = Append(verdicts, r.verdict)
            /\ statistics' = r.statistics
            /\ duplicate_detector' = r.detector
            /\ excel_writer' = r.writer
            /\ pc' = IF r.raised THEN "failed" ELSE "processing"
    /\ consumed' = consumed + 1
    /\ UNCHANGED <<path, log_file, variant, header, locals, disk, runs>>

\* The reader is exhausted: convert() saves and finalizes the statistics.
ConvertFinish ==
    /\ variant = "main"
    /\ pc = "processing"
    /\ header # DecodeError
    /\ pc' = "done"
    /\ disk' = excel_writer.worksheet
    /\ statistics' = finalize(statistics, duplicate_detector, excel_writer)
    /\ UNCHANGED <<path, log_file, variant, header, input, verdicts, duplicate_detector,
                   excel_writer, locals, runs, consumed>>

\* read_records with the handler of detect_column_count: the error is logged
\* and the loop ends as at the end of the file.
ReadFails_swallowed ==
    /\ pc = "processing"
    /\ \/ header = DecodeError /\ input = <<>>
       \/ header \notin {NoRow, DecodeError} /\ consumed < MaxRows
    /\ pc' = "done"
    /\ input' = Append(input, DecodeError)
    /\ disk' = excel_writer.worksheet
    /\ UNCHANGED <<path, log_file, variant, header, verdicts, statistics,
                   duplicate_detector, excel_writer, locals, runs, consumed>>

\* Decoding the next row fails: the exception leaves the conversion.
ReadFails ==
    /\ pc = "processing"
    /\ \/ header = DecodeError /\ input = <<>>
       \/ header \notin {NoRow, DecodeError} /\ consumed < MaxRows
    /\ pc' = "failed"
    /\ input' = Append(input, DecodeError)
    /\ UNCHANGED <<path, log_file, variant, header, verdicts, statistics, duplicate_detector,
                   excel_writer, locals, disk, runs, consumed>>

\* A second convert() on the same CSVToExcelConverter object; the file at the
\* path may have changed in between.
ConvertAgain ==
    /\ variant = "main"
    /\ pc = "done"
    /\ runs < MaxRuns
    /\ pc' = "ready"
    /\ input' = <<>>
    /\ verdicts' = <<>>
    /\ UNCHANGED <<path, log_file, variant, header, statistics, duplicate_detector,
                   excel_writer, locals, disk, runs, consumed>>

\* convert_csv_to_excel (backup, ti) and convert_csv_to_word, up to their
\* loops.
ScriptStart ==
    /\ variant \in {"backup", "word", "ti"}
    /\ pc = "ready"
    /\ pc' = "processing"
    /\ runs' = runs + 1
    /\ locals' = IF variant = "backup" THEN backup_begin
                 ELSE IF variant = "ti" THEN ti_begin
                 ELSE word_begin(header)
    /\ UNCHANGED <<path, log_file, variant, header, input, verdicts, statistics,
                   duplicate_detector, excel_writer, disk, consumed>>

\* One iteration of the loop of convert_csv_to_excel (backup).
BackupRow ==
    /\ variant = "backup"
    /\ pc = "processing"
    /\ header \notin {NoRow, DecodeError}
    /\ consumed < MaxRows
    /\ \E row \in DataRows :
         /\ input' = Append(input, row)
         /\ verdicts' = Append(verdicts, backup_row(locals, row).verdict)
         /\ locals' = backup_row(locals, row).locals
    /\ consumed' = consumed + 1
    /\ UNCHANGED <<path, log_file, variant, pc, header, statistics, duplicate_detector,
                   excel_writer, disk, runs>>

\* One iteration of the loop of convert_csv_to_word.
WordRow ==
    /\ variant = "word"
    /\ pc = "processing"
    /\ header \notin {NoRow, DecodeError}
    /\ consumed < MaxRows
    /\ \E row \in DataRows :
         /\ input' = Append(input, row)
         /\ verdicts' = Append(verdicts, word_row(locals, row).verdict)
         /\ locals' = word_row(locals, row).locals
    /\ consumed' = consumed + 1
    /\ UNCHANGED <<path, log_file, variant, pc, header, statistics, duplicate_detector,
                   excel_writer, disk, runs>>

\* One iteration of the loop of convert_csv_to_excel (ti).
TiRow ==
    /\ variant = "ti"
    /\ pc = "processing"
    /\ header \notin {NoRow, DecodeError}
    /\ consumed < MaxRows
    /\ \E row \in DataRows :
         /\ input' = Append(input, row)
         /\ verdicts' = Append(verdicts, ti_row(locals, row).verdict)
         /\ locals' = ti_row(locals, row).locals
    /\ consumed' = consumed + 1
    /\ UNCHANGED <<path, log_file, variant, pc, header, statistics,
                   duplicate_detector, excel_writer, disk, runs>>

\* The reader is exhausted: the script saves its document.
ScriptFinish ==
    /\ variant \in {"backup", "word", "ti"}
    /\ pc = "processing"
    /\ header # DecodeError
    /\ pc' = "done"
    /\ disk' = IF variant = "word" THEN word_table(locals) ELSE locals.ws
    /\ UNCHANGED <<path, log_file, variant, header, input, verdicts, statistics,
                   duplicate_detector, excel_writer, locals, runs, consumed>>

Next ==
    \/ MainValidate
    \/ ConvertStart
    \/ ProcessRecord
    \/ ConvertFinish
    \/ ReadFails
    \/ ScriptStart
    \/ BackupRow
    \/ WordRow
    \/ TiRow
    \/ ScriptFinish

Spec == Init /\ [][Next]_vars

NextReuse ==
    \/ Next
    \/ ConvertAgain

SpecReuse == Init /\ [][NextReuse]_vars

\* The loop of _process_records over the leading part of a file of more than
\* a million rows, every one a product with a name of its own that no row of
\* DataRows shares: each is counted and written, so the writer stands at
\* sheet row MAX_EXCEL_ROWS or one past it.  The sheet rows and the keys of
\* that part are left out of the state; the rows that follow are revealed
\* one per step as before.
LargeFilePrefix ==
    /\ variant = "main"
    /\ pc = "processing"
    /\ header \notin {NoRow, DecodeError}
    /\ input = <<>>
    /\ excel_writer._current_row = 2
    /\ \E written \in {MAX_EXCEL_ROWS - 2, MAX_EXCEL_ROWS - 1} :
         /\ excel_writer' = [excel_writer EXCEPT !._current_row = @ + written]
         /\ statistics' = [statistics EXCEPT !.total_rows_read = @ + written]
    /\ UNCHANGED <<path, log_file, variant, pc, header, input, verdicts,
                   duplicate_detector, locals, disk, runs, consumed>>

\* csv-to-excel-inpu.py is given the path of the sample file.
InitSample ==
    \/ Init
    \/ /\ variant = "main"
       /\ path = [is_absolute |-> TRUE, suffix |-> CsvUpperSuffix,
                  kind |-> "file"]
       /\ log_file = FALSE
       /\ pc = "main"
       /\ header = SampleHeader
       /\ input = <<>>
       /\ verdicts = <<>>
       /\ statistics = ConversionStatistics
       /\ duplicate_detector = DuplicateDetector
       /\ excel_writer = NoWriter
       /\ locals = NoLocals
       /\ disk = NoDocument
       /\ runs = 0
       /\ consumed = 0

\* One iteration of the loop of _process_records on the next row of the
\* sample file.
ProcessSampleRow ==
    /\ variant = "main"
    /\ pc = "processing"
    /\ header = SampleHeader
    /\ Len(input) < Len(SampleRows)
    /\ input = SubSeq(SampleRows, 1, Len(input))
    /\ LET r == _process_record(statistics, duplicate_detector, excel_writer,
                                read_record(SampleRows[Len(input) + 1],
                                            Len(input) + 2))
       IN /\ input' = Append(input, SampleRows[Len(input) + 1])
          /\ verdicts' = Append(verdicts, r.verdict)
          /\ statistics' = r.statistics
          /\ duplicate_detector' = r.detector
          /\ excel_writer' = r.writer
          /\ pc' = IF r.raised THEN "failed" ELSE "processing"
    /\ consumed' = consumed + 1
    /\ UNCHANGED <<path, log_file, variant, header, locals, disk, runs>>

NextSample ==
    \/ Next
    \/ ProcessSampleRow

SpecSample == InitSample /\ [][NextSample]_vars

NextLimit ==
    \/ Next
    \/ LargeFilePrefix

SpecLimit == Init /\ [][NextLimit]_vars

----------------------------------------------------------------------------
\* Notions the properties are stated with.

Main == variant = "main"

\* The record the reader of csv-to-excel-inpu.py yields for each row of
\* DataRows, and the canonical key of each name it yields.
RecordOf == [row \in DataRows |-> read_record(row, 0)]

KeyOf ==
    [name \in {RecordOf[row].product_name : row \in DataRows}
        |-> normalize_name([product_name |-> name])]

\* The record the reader yields for data row i, and its canonical key.
Rec(i) == [RecordOf[input[i]] EXCEPT !.row_number = i + 1]

Key(i) == KeyOf[RecordOf[input[i]].product_name]

CountVerdict(v) == Cardinality({i \in 1..Len(verdicts) : verdicts[i] = v})

\* The data rows whose record was written, in read order.
RECURSIVE AdmittedFrom(_)
AdmittedFrom(i) ==
    IF i > Len(verdicts) THEN <<>>
    ELSE IF verdicts[i] = "admitted" THEN <<i>> \o AdmittedFrom(i + 1)
    ELSE AdmittedFrom(i + 1)

Admitted == AdmittedFrom(1)

\* The sheet rows that hold a cell.
SheetRows(ws) == {cell[1] : cell \in DOMAIN ws}

\* Sheet row r holds exactly what write_record is to put there for record rec.
RowHolds(ws, column_count, r, rec) ==
    /\ <<r, 1>> \in DOMAIN ws /\ ws[<<r, 1>>] = rec.product_name
    /\ <<r, 2>> \in DOMAIN ws /\ ws[<<r, 2>>] = rec.price
    /\ <<r, 3>> \in DOMAIN ws <=> (column_count >= 3 /\ rec.category # <<>>)
    /\ <<r, 3>> \in DOMAIN ws => ws[<<r, 3>>] = rec.category
    /\ \A cell \in DOMAIN ws : cell[1] = r => cell[2] \in 1..3

----------------------------------------------------------------------------
\* C1: when CSVToExcelConverter.convert completes, every data row read is
\* counted in exactly one of the four classes, so total_rows_read =
\* empty_rows_skipped + invalid_rows_skipped + duplicate_rows_skipped +
\* unique_products_written.
C1_CountsPartition ==
    (Main /\ pc = "done") =>
        /\ statistics.total_rows_read = Len(input)
        /\ statistics.empty_rows_skipped = CountVerdict("blank")
        /\ statistics.invalid_rows_skipped = CountVerdict("invalid")
        /\ statistics.duplicate_rows_skipped = CountVerdict("duplicate")
        /\ statistics.unique_products_written = CountVerdict("admitted")
        /\ statistics.total_rows_read =
             statistics.empty_rows_skipped + statistics.invalid_rows_skipped
             + statistics.duplicate_rows_skipped
             + statistics.unique_products_written

C1_Witness ==
    /\ Main /\ pc = "done" /\ Len(input) = MaxRows
    /\ CountVerdict("duplicate") >= 1
    /\ CountVerdict("admitted") >= 1
    /\ CountVerdict("blank") + CountVerdict("invalid") >= 1

----------------------------------------------------------------------------
\* Two names that differ only by letter case, by surrounding whitespace or
\* by the length of whitespace runs.
FoldCaseAndSpace(name) == JoinSpace(Split(Lower(name)))

RawName(i) == IF Len(input[i]) >= 1 THEN input[i][1] ELSE <<>>

\* C2: in one run of csv-to-excel-inpu.py or csv-to-excel-input-backup.py,
\* when two records' names differ only by letter case, surrounding whitespace
\* or the length of internal whitespace runs and the earlier one was
\* admitted, the later one is classified duplicate.
C2_CaseAndSpaceVariantsAreDuplicates ==
    variant \in {"main", "backup"} =>
    \A i, j \in 1..Len(verdicts) :
        (/\ i < j
         /\ verdicts[i] = "admitted"
         /\ FoldCaseAndSpace(RawName(i)) = FoldCaseAndSpace(RawName(j)))
        => verdicts[j] = "duplicate"

----------------------------------------------------------------------------
\* C3: among the records of a run that share one canonical key, the first in
\* read order is the one written, with its own name, price and category;
\* every later one is dropped, and the sheet holds one row for the key.
C3_FirstOccurrenceWins ==
    Main =>
      LET ws == excel_writer.worksheet
          keys == [i \in 1..Len(verdicts) |-> Key(i)]
          written == [r \in SheetRows(ws) \ {1} |-> KeyOf[ws[<<r, 1>>]]]
      IN
      \A i \in 1..Len(verdicts) :
        (keys[i] # <<>> /\ \A h \in 1..(i - 1) : keys[h] # keys[i]) =>
          /\ verdicts[i] = "admitted"
          /\ \A j \in (i + 1)..Len(verdicts) :
                 keys[j] = keys[i] => verdicts[j] = "duplicate"
          /\ \E r \in DOMAIN written :
               /\ RowHolds(ws, excel_writer.column_count, r, Rec(i))
               /\ \A q \in DOMAIN written : q # r => written[q] # keys[i]

C3_Witness ==
    /\ Main /\ pc = "done"
    /\ \E i, j \in 1..Len(verdicts) :
         /\ i < j /\ Key(i) = Key(j) /\ Rec(i) # Rec(j)
         /\ verdicts[i] = "admitted" /\ verdicts[j] = "duplicate"
         /\ Rec(i).category # Rec(j).category

----------------------------------------------------------------------------
\* C4: the data rows of the sheet (row 2 onwards) are the admitted records in
\* read order: the k-th admitted record is sheet row k + 1, and the saved
\* document is that sheet.
C4_OutputOrderIsInputOrder ==
    Main /\ pc \in {"processing", "done"} =>
      /\ SheetRows(excel_writer.worksheet) = 1..(Len(Admitted) + 1)
      /\ \A k \in 1..Len(Admitted) :
           RowHolds(excel_writer.worksheet, excel_writer.column_count,
                    k + 1, Rec(Admitted[k]))
      /\ pc = "done" => disk = excel_writer.worksheet

C4_Witness ==
    /\ Main /\ pc = "done" /\ Len(Admitted) = 2
    /\ verdicts[1] = "admitted" /\ verdicts[2] # "admitted"
    /\ Rec(Admitted[1]).product_name # Rec(Admitted[2]).product_name

----------------------------------------------------------------------------
\* C5: at the start of every convert() call, before its first record, the
\* seen-set is empty and the duplicate count is zero, so a record is rejected
\* as duplicate only because of an earlier record of the same run.
C5_SeenSetEmptyAtConvertStart ==
    /\ (Main /\ pc = "processing" /\ input = <<>>) =>
          /\ duplicate_detector._seen_products = {}
          /\ duplicate_detector._duplicate_count = 0
    /\ Main =>
          \A j \in 1..Len(verdicts) :
              verdicts[j] = "duplicate" =>
                  \E i \in 1..(j - 1) :
                      verdicts[i] = "admitted" /\ Key(i) = Key(j)

----------------------------------------------------------------------------
\* What the run's statistics have counted so far, over all counters.
CounterSum ==
    statistics.total_rows_read + statistics.empty_rows_skipped
    + statistics.invalid_rows_skipped + duplicate_detector._duplicate_count
    + locals.total_rows + locals.duplicates_found + locals.unique_products
    + locals.skipped_empty_rows + locals.rows_written

\* C6: in every variant, a data row that is read and not written raises at
\* least one counter of the run's statistics.
C6_SkippedRowsAreCounted ==
    [][(/\ Len(verdicts') = Len(verdicts) + 1
        /\ verdicts'[Len(verdicts')] # "admitted")
       => CounterSum' > CounterSum]_vars

----------------------------------------------------------------------------
\* Field k of data row i with surrounding whitespace removed, empty when
\* the row has no such field.
Trimmed(i, k) == IF Len(input[i]) >= k THEN Strip(input[i][k]) ELSE <<>>

ScenarioB == << <<E, E>>, <<E, <<"5">>>> >>

\* C7: a record is blank when its trimmed name and price are both empty,
\* invalid when the name is empty and the price is not, and otherwise
\* duplicate or admitted; [header], ["",""], ["","5"] gives one blank row,
\* one invalid row and no admitted row.
C7_ClassificationOrder ==
    Main =>
      /\ \A i \in 1..Len(verdicts) :
           /\ (Trimmed(i, 1) = <<>> /\ Trimmed(i, 2) = <<>>)
                 => verdicts[i] = "blank"
           /\ (Trimmed(i, 1) = <<>> /\ Trimmed(i, 2) # <<>>)
                 => verdicts[i] = "invalid"
           /\ Trimmed(i, 1) # <<>>
                 => verdicts[i] \in {"duplicate", "admitted"}
      /\ (pc = "done" /\ input = ScenarioB) =>
           /\ verdicts = <<"blank", "invalid">>
           /\ statistics.empty_rows_skipped = 1
           /\ statistics.invalid_rows_skipped = 1
           /\ statistics.unique_products_written = 0
           /\ SheetRows(disk) = {1}

C7_Witness == Main /\ pc = "done" /\ input = ScenarioB

----------------------------------------------------------------------------
ScenarioA ==
    << <<Apple, <<"1", "0">>>>,
       <<AppleLowerSp, <<" ", "1", "0">>>>,
       <<Banana, E>> >>

\* C8: [header], ["Apple","10"], ["apple "," 10"], ["Banana",""] writes
\* ("Apple","10") then ("Banana",""), with one duplicate and no blank row; a
\* record with a name and an empty price is never blank or invalid, and is
\* admitted when no earlier record has its key.
C8_EmptyPriceIsAdmitted ==
    Main =>
      /\ (pc = "done" /\ input = ScenarioA) =>
           /\ verdicts = <<"admitted", "duplicate", "admitted">>
           /\ SheetRows(disk) = 1..3
           /\ disk[<<2, 1>>] = Apple /\ disk[<<2, 2>>] = <<"1", "0">>
           /\ disk[<<3, 1>>] = Banana /\ disk[<<3, 2>>] = <<>>
           /\ statistics.duplicate_rows_skipped = 1
           /\ statistics.empty_rows_skipped = 0
           /\ statistics.invalid_rows_skipped = 0
           /\ statistics.unique_products_written = 2
      /\ LET keys == [i \in 1..Len(verdicts) |-> Key(i)] IN
         \A i \in 1..Len(verdicts) :
           (Trimmed(i, 1) # <<>> /\ Trimmed(i, 2) = <<>>) =>
             /\ verdicts[i] \notin {"blank", "invalid"}
             /\ (\A h \in 1..(i - 1) : keys[h] # keys[i])
                   => verdicts[i] = "admitted"

C8_Witness == Main /\ pc = "done" /\ input = ScenarioA

----------------------------------------------------------------------------
\* C9: for a file of a header row and no data rows, convert() completes with
\* every count zero and saves a sheet that holds the header row only.
C9_HeaderOnlyInput ==
    (Main /\ pc = "done" /\ input = <<>> /\ header \in HeaderRows) =>
      /\ statistics.total_rows_read = 0
      /\ statistics.empty_rows_skipped = 0
      /\ statistics.invalid_rows_skipped = 0
      /\ statistics.duplicate_rows_skipped = 0
      /\ statistics.unique_products_written = 0
      /\ SheetRows(disk) = {1}
      /\ DOMAIN disk = {1} \X (1..statistics.columns_detected)
      /\ \A cell \in DOMAIN disk : disk[cell] = HeaderText(cell[2] - 1)

C9_Witness ==
    /\ Main /\ pc = "done" /\ input = <<>>
    /\ header = <<<<"n">>, <<"p">>, <<"c">>>>

----------------------------------------------------------------------------
\* The saved sheet as the rows of a new input file: its header row, then
\* each data row with "" for a cell that was never written.
SheetWidth(ws) == Cardinality({cell \in DOMAIN ws : cell[1] = 1})

SheetAsRow(ws, r) ==
    [c \in 1..SheetWidth(ws) |->
        IF <<r, c>> \in DOMAIN ws THEN ws[<<r, c>>] ELSE <<>>]

SheetAsRows(ws) ==
    [k \in 1..(Cardinality(SheetRows(ws)) - 1) |-> SheetAsRow(ws, k + 1)]

\* C10: a new run over the records one run wrote, behind the written header
\* row, rejects none of them (duplicate, blank or invalid) and writes the
\* same records in the same order.
C10_FilterIsIdempotent ==
    (Main /\ pc = "done") =>
      LET again == convert(SheetAsRow(disk, 1), SheetAsRows(disk)) IN
      /\ ~again.raised
      /\ again.statistics.total_rows_read = statistics.unique_products_written
      /\ again.statistics.duplicate_rows_skipped = 0
      /\ again.statistics.empty_rows_skipped = 0
      /\ again.statistics.invalid_rows_skipped = 0
      /\ again.statistics.unique_products_written
            = statistics.unique_products_written
      /\ again.worksheet = disk

C10_Witness ==
    /\ Main /\ pc = "done"
    /\ verdicts = <<"admitted", "duplicate", "admitted">>
    /\ excel_writer.column_count = 3
    /\ \E r \in SheetRows(disk) : <<r, 3>> \in DOMAIN disk /\ r >= 2

----------------------------------------------------------------------------
\* The text of a sheet cell, "" for a cell that was never written.
CellText(ws, r, c) == IF <<r, c>> \in DOMAIN ws THEN ws[<<r, c>>] ELSE <<>>

\* C11: for every admitted record of csv-to-excel-inpu.py, the price cell of
\* its sheet row is the row's price field with surrounding whitespace
\* removed and nothing else changed, and, where the sheet has a category
\* column, the category cell is the trimmed category field; an empty field
\* gives an empty cell.
C11_PriceAndCategoryAreCopied ==
    Main =>
      \A k \in 1..Len(Admitted) :
        /\ <<k + 1, 2>> \in DOMAIN excel_writer.worksheet
        /\ excel_writer.worksheet[<<k + 1, 2>>] = Trimmed(Admitted[k], 2)
        /\ excel_writer.column_count >= 3 =>
              CellText(excel_writer.worksheet, k + 1, 3)
                  = Trimmed(Admitted[k], 3)
        /\ pc = "done" =>
              /\ disk[<<k + 1, 2>>] = Trimmed(Admitted[k], 2)
              /\ excel_writer.column_count >= 3 =>
                    CellText(disk, k + 1, 3) = Trimmed(Admitted[k], 3)

C11_Witness ==
    /\ Main /\ pc = "done" /\ excel_writer.column_count >= 3
    /\ \E k \in 1..Len(Admitted) :
         /\ Len(input[Admitted[k]]) >= 2
         /\ input[Admitted[k]][2] # Trimmed(Admitted[k], 2)
         /\ disk[<<k + 1, 2>>] = <<"1", "0">>
    /\ \E k \in 1..Len(Admitted) : disk[<<k + 1, 2>>] = <<>>
    /\ \E k \in 1..Len(Admitted) : CellText(disk, k + 1, 3) = <<"x">>

----------------------------------------------------------------------------
\* C12: when a record passes the filter while the writer stands past sheet
\* row MAX_EXCEL_ROWS, write_record raises and writes nothing, convert()
\* fails, and the document is never saved: no sheet row past the limit
\* exists and a failed run has no file.
C12_RowLimitIsFatal ==
    /\ [](Main =>
            /\ \A r \in SheetRows(excel_writer.worksheet) : r <= MAX_EXCEL_ROWS
            /\ pc = "failed" => disk = NoDocument)
    /\ [][(/\ Main /\ pc = "processing"
           /\ Len(verdicts') = Len(verdicts) + 1
           /\ verdicts'[Len(verdicts')] = "admitted"
           /\ excel_writer._current_row > MAX_EXCEL_ROWS)
          => (/\ pc' = "failed"
              /\ excel_writer' = excel_writer
              /\ disk' = NoDocument)]_vars

C12_Witness ==
    /\ Main /\ pc = "failed" /\ disk = NoDocument
    /\ Len(verdicts) >= 2
    /\ verdicts[Len(verdicts)] = "admitted"
    /\ verdicts[Len(verdicts) - 1] = "admitted"
    /\ excel_writer._current_row = MAX_EXCEL_ROWS + 1
    /\ MAX_EXCEL_ROWS \in SheetRows(excel_writer.worksheet)

----------------------------------------------------------------------------
\* C13: in csv-to-excel-inpu.py, when the bytes of any row, the header row
\* or a later one, do not decode, the run fails and no document is saved,
\* whatever was processed before; when it is the header row,
\* detect_column_count has answered 2 and convert() has gone on to
\* read_records, which fails.
C13_DecodeFailureIsFatal ==
    Main =>
      /\ header = DecodeError =>
            /\ pc # "done"
            /\ disk = NoDocument
            /\ pc \in {"processing", "failed"} =>
                  /\ statistics.columns_detected = 2
                  /\ excel_writer.column_count = 2
      /\ (input # <<>> /\ input[Len(input)] = DecodeError) =>
            /\ pc = "failed"
            /\ disk = NoDocument
            /\ Len(verdicts) = Len(input) - 1

C13_Witness ==
    /\ Main /\ pc = "failed" /\ disk = NoDocument
    /\ Len(input) = MaxRows /\ input[Len(input)] = DecodeError
    /\ verdicts = <<"admitted", "duplicate">>
    /\ 2 \in SheetRows(excel_writer.worksheet)
    /\ statistics.total_rows_read = 2

----------------------------------------------------------------------------
\* C14: in csv-to-excel-inpu.py and csv-to-excel-input-backup.py, when the
\* given path is not absolute, does not end in .csv (in any letter case),
\* names nothing or names something that is not a regular file, main
\* returns 1 from the validation: no conversion starts, no row is read, no
\* log file and no output file is created.
C14_InvalidPathIsRejected ==
    (/\ variant \in {"main", "backup"}
     /\ ~(/\ path.is_absolute
          /\ Lower(path.suffix) = <<".", "c", "s", "v">>
          /\ path.kind = "file"))
    => /\ pc \in {"main", "rejected"}
       /\ ~log_file
       /\ runs = 0
       /\ input = <<>> /\ verdicts = <<>>
       /\ statistics = ConversionStatistics
       /\ excel_writer = NoWriter /\ locals = NoLocals
       /\ disk = NoDocument

C14_Witness ==
    /\ variant = "main" /\ pc = "rejected"
    /\ path.is_absolute /\ path.suffix = CsvUpperSuffix
    /\ path.kind = "directory"
    /\ ~log_file /\ disk = NoDocument

----------------------------------------------------------------------------
\* Every data row of sheet or table ws has a name that is not blank.
NamesNotBlank(ws) ==
    \A r \in SheetRows(ws) \ {1} :
        <<r, 1>> \in DOMAIN ws /\ Strip(ws[<<r, 1>>]) # <<>>

\* C15: in every variant and every state of a run, no data row of the
\* output, in memory or saved, has an empty or whitespace-only product name.
C15_NoBlankNameInOutput ==
    /\ NamesNotBlank(excel_writer.worksheet)
    /\ NamesNotBlank(locals.ws)
    /\ disk # NoDocument => NamesNotBlank(disk)

----------------------------------------------------------------------------
\* C16: csv-to-excel-inpu.py on the sample file of create_test_csv rejects
\* data rows 3, 5 and 9 as duplicates and counts data row 7 as an empty row.
C16_SampleFileVerdicts ==
    (Main /\ pc = "done" /\ header = SampleHeader /\ input = SampleRows) =>
      /\ verdicts[3] = "duplicate"
      /\ verdicts[5] = "duplicate"
      /\ verdicts[9] = "duplicate"
      /\ verdicts[7] = "blank"
      /\ statistics.empty_rows_skipped = 1
      /\ statistics.duplicate_rows_skipped = 3

----------------------------------------------------------------------------
\* The canonical key of the name of a row of DataRows.
KeyOfRow(row) == KeyOf[RecordOf[row].product_name]

\* C17: in a run of csv-to-excel-inpu.py the seen-set changes only when a
\* record is admitted: a step that classifies a record blank, invalid or
\* duplicate, and every other step, leaves it as it is; an admission adds
\* the record's canonical key, which was not in the set, and nothing else;
\* no key is ever removed.
C17_SeenSetChangesOnlyOnAdmission ==
    [][Main =>
        LET admits == /\ Len(verdicts') = Len(verdicts) + 1
                      /\ verdicts'[Len(verdicts')] = "admitted"
        IN /\ duplicate_detector._seen_products
                \subseteq duplicate_detector'._seen_products
           /\ admits =>
                /\ KeyOfRow(input'[Len(input')])
                      \notin duplicate_detector._seen_products
                /\ duplicate_detector'._seen_products
                      = duplicate_detector._seen_products
                        \cup {KeyOfRow(input'[Len(input')])}
           /\ ~admits =>
                duplicate_detector'._seen_products
                    = duplicate_detector._seen_products]_vars

C17_Witness ==
    /\ Main /\ pc = "done"
    /\ verdicts = <<"admitted", "duplicate", "invalid">>
    /\ duplicate_detector._seen_products = {Key(1)}
    /\ Key(1) # RecordOf[input[1]].product_name

----------------------------------------------------------------------------
\* The cells of a row that hold more than whitespace.
RECURSIVE NonBlankCells(_)
NonBlankCells(row) ==
    IF row = <<>> THEN 0
    ELSE (IF \E i \in 1..Len(Head(row)) : Head(row)[i] # " " THEN 1 ELSE 0)
         + NonBlankCells(Tail(row))

ExpectedColumns ==
    IF header = NoRow THEN 2
    ELSE IF NonBlankCells(header) >= 2 THEN NonBlankCells(header) ELSE 2

\* C18: in csv-to-excel-inpu.py the detected column count is the larger of
\* 2 and the number of non-blank cells of the first row of the file, 2 for
\* an empty file, whatever the data rows hold; the sheet has exactly that
\* many header cells, no data cell lies past column 3 or past the detected
\* count, and a category cell exists only when the count is 3 or more.
C18_ColumnCountFromFirstRow ==
    (Main /\ pc \in {"processing", "done", "failed"} /\ header # DecodeError)
    => LET ws == excel_writer.worksheet IN
       /\ statistics.columns_detected = ExpectedColumns
       /\ excel_writer.column_count = ExpectedColumns
       /\ {cell \in DOMAIN ws : cell[1] = 1} = {1} \X (1..ExpectedColumns)
       /\ \A cell \in DOMAIN ws :
             cell[1] >= 2 => cell[2] <= 3 /\ cell[2] <= ExpectedColumns
       /\ pc = "done" => disk = ws

C18_Witness ==
    /\ Main /\ pc = "done"
    /\ header = <<<<"n">>, <<" ">>, <<"c">>>>
    /\ excel_writer.column_count = 2
    /\ \E i \in 1..Len(verdicts) :
         verdicts[i] = "admitted" /\ Trimmed(i, 3) # <<>>
    /\ \A cell \in DOMAIN disk : cell[2] <= 2

----------------------------------------------------------------------------
\* The admitted records that the sink does not hold yet: the sink of
\* csv-to-excel-inpu.py is the sheet of its ExcelWriter, the sink of
\* csv-to-word.py is the table of the document, which exists once the
\* document is built.
Unforwarded ==
    IF variant = "main"
    THEN Len(Admitted) - (Cardinality(SheetRows(excel_writer.worksheet)) - 1)
    ELSE IF pc = "done" THEN Len(Admitted) - (Cardinality(SheetRows(disk)) - 1)
    ELSE Len(locals.rows_data)

\* C19: in csv-to-excel-inpu.py and csv-to-word.py, between two reads every
\* admitted record is already in the sink, so none is held between filter
\* and sink, and the document is saved only once the reader is exhausted.
C19_OneRecordAtATime ==
    (variant \in {"main", "word"} /\ pc \in {"processing", "done", "failed"})
    => /\ Unforwarded = 0
       /\ disk # NoDocument => pc = "done"

----------------------------------------------------------------------------
\* The rows of the input that decoded.
DecodedRows == {i \in 1..Len(input) : input[i] # DecodeError}

\* C20: in csv-to-excel-inpu.py a data row of any number of fields yields
\* exactly one record: its first three fields trimmed, "" for each one the
\* row lacks, the fields after the third dropped; a row of no field is
\* classified blank and counted in empty_rows_skipped; no row shape fails
\* the run.
C20_RowShapeIsNeverFatal ==
    Main =>
      /\ DOMAIN verdicts = DecodedRows
      /\ \A i \in DOMAIN verdicts :
           /\ Rec(i) = [product_name |-> Trimmed(i, 1),
                        price        |-> Trimmed(i, 2),
                        category     |-> Trimmed(i, 3),
                        row_number   |-> i + 1]
           /\ input[i] = <<>> => verdicts[i] = "blank"
      /\ pc \in {"processing", "done", "failed"} =>
           statistics.empty_rows_skipped = CountVerdict("blank")
      /\ pc = "failed" => DecodedRows # 1..Len(input)

C20_Witness ==
    /\ Main /\ pc = "done"
    /\ \E i \in 1..Len(input) : Len(input[i]) = 0 /\ verdicts[i] = "blank"
    /\ \E i \in 1..Len(input) : Len(input[i]) = 1 /\ verdicts[i] = "admitted"
    /\ \E i \in 1..Len(input) : Len(input[i]) = 4 /\ verdicts[i] = "admitted"
    /\ statistics.total_rows_read = 3 /\ statistics.empty_rows_skipped = 1

----------------------------------------------------------------------------
\* The rows of the file the run has read so far.
FileRead == IF header = NoRow THEN <<>> ELSE <<header>> \o input

\* C21: in csv-to-excel-inpu.py, whatever the first row of the file holds,
\* read_records yields no record for it: it is not counted in
\* total_rows_read, its name does not enter the seen-set and it is not a
\* data row of the sheet; every later row yields one record, in order, the
\* first numbered 2 and each next one numbered 1 higher.
C21_HeaderRowIsSkipped ==
    (Main /\ pc \in {"processing", "done"} /\ header # DecodeError) =>
      LET records == read_records(FileRead, TRUE) IN
      /\ Len(records) = Len(input)
      /\ \A k \in 1..Len(records) :
           /\ records[k].row_number = k + 1
           /\ records[k].product_name = Trimmed(k, 1)
           /\ records[k].price = Trimmed(k, 2)
           /\ records[k].category = Trimmed(k, 3)
      /\ Len(verdicts) = Len(input)
      /\ statistics.total_rows_read = Len(input)
      /\ Cardinality(SheetRows(excel_writer.worksheet)) - 1 = Len(Admitted)
      /\ duplicate_detector._seen_products
           = {Key(Admitted[k]) : k \in 1..Len(Admitted)}

C21_Witness ==
    /\ Main /\ pc = "done"
    /\ header = <<Apple, <<"1", "0">>>>
    /\ input = <<header, <<>>, header>>
    /\ verdicts = <<"admitted", "blank", "duplicate">>
    /\ statistics.total_rows_read = 3
    /\ SheetRows(disk) = {1, 2}

----------------------------------------------------------------------------
\* C22: in a run of csv-to-excel-inpu.py, after every record the loop has
\* processed, the number of keys in the seen-set is the number of data rows
\* written, get_unique_count() = get_rows_written() = _current_row - 2,
\* and the detector's duplicate count is the number of records rejected as
\* duplicates so far.
C22_DetectorAndWriterAgree ==
    (Main /\ pc \in {"processing", "done", "failed"}) =>
      /\ get_unique_count(duplicate_detector) = get_rows_written(excel_writer)
      /\ get_rows_written(excel_writer) = excel_writer._current_row - 2
      /\ get_rows_written(excel_writer) = CountVerdict("admitted")
      /\ get_rows_written(excel_writer)
           = Cardinality(SheetRows(excel_writer.worksheet) \ {1})
      /\ get_duplicate_count(duplicate_detector) = CountVerdict("duplicate")

C22_Witness ==
    /\ Main /\ pc = "processing"
    /\ verdicts = <<"admitted", "duplicate", "admitted">>
    /\ get_unique_count(duplicate_detector) = 2
    /\ excel_writer._current_row = 4
    /\ get_duplicate_count(duplicate_detector) = 1

====
